---- MODULE Spec2Model ----
(***************************************************************************)
(* periodt: arranging items into a periodic-table shaped grid.             *)
(*                                                                         *)
(* Two versions of the layout pipeline live in the repository:             *)
(*   "lib"  src/unnamed/part_002  periodt<T>(items, getGroupingId,         *)
(*          getDefault, silent, random): sortAndGroupItems, shuffleGroups, *)
(*          sqrt sizing, buildLayout, fillGrid, compressGrid;              *)
(*   "mod"  src/mod.ts            periodt(chars): inline sort and group,   *)
(*          Fisher-Yates shuffle, fraction-with-floor sizing, getLayout,   *)
(*          fill, per-column compression.                                  *)
(*                                                                         *)
(* Arrays are 0-based in the source and 1-based here: grid[r + 1][c + 1]   *)
(* is the cell at Position(c, r).                                          *)
(*                                                                         *)
(* An item is a record [val, id]. val is the JavaScript value (a string;   *)
(* the callers use getGroupingId = identity and getDefault = () => " ").   *)
(* id is the item's position in the input (0 for a value the pipeline      *)
(* made itself); it is what tells two equal strings of the input apart and *)
(* is invisible to every comparison the code makes (===, localeCompare,    *)
(* JSON.stringify).                                                        *)
(***************************************************************************)
EXTENDS Integers, Sequences, FiniteSets, TLC

VARIABLES
    variant,       \* "lib" | "mod": which version of periodt runs
    items,         \* the input array (items / chars)
    random,        \* the random flag (mod.ts always shuffles)
    pc,            \* position in periodt
    groups,        \* sortedGroups / groups (shuffled in place)
    i,             \* the shuffle loop's index i (0-based)
    orderedItems,  \* orderedItems / randomizedChars
    cols,          \* cols / totalCols
    rows,          \* rows / numRows
    layout,        \* the boolean mask, layout[r][c]
    grid,          \* the Grid, as its rows
    arrayGrid      \* part_002: compressGrid's result

vars == <<variant, items, random, pc, groups, i, orderedItems, cols, rows,
          layout, grid, arrayGrid>>

-----------------------------------------------------------------------------
(* Bounds of the model *)

\* every input of at most MaxLen items over the variant's values is tried
MaxLen == 3
\* longer inputs follow a repeating pattern of values: of MaxLen + 1 .. MaxN
\* items for part_002, of MaxLen + 1 .. MaxChars items for mod.ts, whose
\* sizing leaves its floors of 10 and 3 only from 52 items on
MaxN == 24
MaxChars == 56
\* the patterns' strides: item k has value number (k * stride) mod 3
MaxStride == 2
\* buildLayout / getLayout alone are run on 0..MaxRows x 0..MaxCols
MaxRows == 5
MaxCols == 12

-----------------------------------------------------------------------------
(* Values *)

EmptyStr == ""
Blank == " "
\* two canonically equivalent spellings of one letter: U+00E9, and U+0065
\* U+0301. They are different strings (!==) that localeCompare reports equal.
ENfc == "e_nfc"
ENfd == "e_nfd"

\* the values of the short inputs, and the three values the long inputs cycle
\* through
LibVals == {"B", ENfc, ENfd, Blank}
ModVals == {"A", "B", Blank, EmptyStr}
LibCycle == <<"B", ENfc, "A">>
ModCycle == <<"A", "B", Blank>>

Item(v, k) == [val |-> v, id |-> k]

\* getDefault: () => " "
getDefault == Item(Blank, 0)

\* getGroupingId: the identity on strings
getGroupingId(it) == it.val

\* JSON.stringify(x) of a string: the quoted string
Stringify(it) == "\"" \o it.val \o "\""

\* the default sort order of strings: by UTF-16 code units
CodeUnitRank(s) ==
    CASE s = EmptyStr -> 0
      [] s = Blank -> 1
      [] s = "A" -> 2
      [] s = "B" -> 3
      [] s = ENfd -> 4
      [] s = ENfc -> 5

\* the collation order localeCompare compares by: canonically equivalent
\* strings have the same rank
Coll(s) ==
    CASE s = EmptyStr -> 0
      [] s = Blank -> 1
      [] s = "A" -> 2
      [] s = "B" -> 3
      [] s = ENfd -> 4
      [] s = ENfc -> 4

Sign(n) == IF n < 0 THEN 0 - 1 ELSE IF n > 0 THEN 1 ELSE 0

\* a.localeCompare(b)
localeCompare(a, b) == Sign(Coll(a) - Coll(b))

\* what the sort compares by: part_002 compares the grouping ids with
\* localeCompare, mod.ts sorts the strings in the default order
SortRank(v, it) ==
    IF v = "lib" THEN Coll(getGroupingId(it)) ELSE CodeUnitRank(it.val)

\* the comparator of the sort; for part_002 it is
\* localeCompare(getGroupingId(a), getGroupingId(b))
Compare(v, a, b) == Sign(SortRank(v, a) - SortRank(v, b))

\* the equality that starts a new group
SameGroup(v, a, b) ==
    IF v = "lib" THEN getGroupingId(a) = getGroupingId(b)
    ELSE a.val = b.val

-----------------------------------------------------------------------------
(* Grouper *)

\* groups.flat()
RECURSIVE Flat(_)
Flat(gs) == IF gs = <<>> THEN <<>> ELSE Head(gs) \o Flat(Tail(gs))

\* items.slice().sort(cmp): Array.prototype.sort is stable, so the result is,
\* rank after rank in ascending order, the items of that rank in input order
SortItems(v, seq) ==
    LET ranks == {SortRank(v, seq[k]) : k \in 1..Len(seq)}
        bucket(r) == SelectSeq(seq, LAMBDA x : SortRank(v, x) = r)
        upTo(r) == Cardinality({q \in ranks : q <= r})
    IN  Flat([n \in 1..Cardinality(ranks) |->
                 bucket(CHOOSE r \in ranks : upTo(r) = n)])

\* the scan for (let i = 1; i < sortedItems.length; i++): index 0 opens the
\* first group, an index whose key differs (!==) from the one before it closes
\* the current group and opens the next; starts holds the opening indices
\* (1-based), and a group runs from its opening index to the next one
GroupScan(v, sorted) ==
    LET starts == {k \in 1..Len(sorted) :
                      k = 1 \/ ~SameGroup(v, sorted[k], sorted[k - 1])}
        later(k) == {q \in starts : q > k}
        last(k) == IF later(k) = {} THEN Len(sorted)
                   ELSE (CHOOSE q \in later(k) : \A x \in later(k) : q <= x) - 1
        nth(n) == CHOOSE k \in starts : Cardinality({q \in starts : q <= k}) = n
    IN  [n \in 1..Cardinality(starts) |-> SubSeq(sorted, nth(n), last(nth(n)))]

sortAndGroupItems(v, its) == GroupScan(v, SortItems(v, its))

-----------------------------------------------------------------------------
(* Orderer *)

\* a swap that loses its second assignment: groups[i] = groups[j] only
SwapGroupsLost(gs, a, b) == [gs EXCEPT ![a + 1] = gs[b + 1]]

\* [groups[i], groups[j]] = [groups[j], groups[i]], i and j 0-based
SwapGroups(gs, a, b) ==
    [gs EXCEPT ![a + 1] = gs[b + 1], ![b + 1] = gs[a + 1]]


-----------------------------------------------------------------------------
(* Dimension Planner *)

\* Math.round(Math.sqrt(m)) for an integer m >= 0: the c with
\* (c - 1/2)^2 < m < (c + 1/2)^2, that is c*c - c < m <= c*c + c
RoundSqrt(m) ==
    IF m = 0 THEN 0
    ELSE CHOOSE c \in 1..m : c * c - c < m /\ m <= c * c + c

\* Math.round(a / b) for integers a >= 0, b > 0: floor(a / b + 1/2)
RoundDiv(a, b) == (2 * a + b) \div (2 * b)

\* part_002: cols = Math.round(Math.sqrt(orderedItems.length * 5))
sqrtCols(total) == RoundSqrt(total * 5)

\* Math.floor for Math.round
sqrtRowsFloor(totalCols) == totalCols \div 3

\* part_002: rows = Math.round(cols / 3)
sqrtRows(totalCols) == RoundDiv(totalCols, 3)

\* mod.ts: totalCols = Math.floor(total / 5), at least 10
floorCols(total) ==
    LET totalCols == total \div 5
    IN  IF totalCols < 10 THEN 10 ELSE totalCols

\* mod.ts: numRows = Math.floor(total / 13), at least 3
floorRows(total) ==
    LET numRows == total \div 13
    IN  IF numRows < 3 THEN 3 ELSE numRows

-----------------------------------------------------------------------------
(* Shape Mask Builder *)

Min(a, b) == IF a < b THEN a ELSE b

\* Array(totalCols).fill(true)
FullRow(totalCols) == [c \in 1..totalCols |-> TRUE]

\* a row filled with false, then row[c] = true for c in 0..left-1 and for c
\* in totalCols-right..totalCols-1 (c is the 0-based column of cell c0 + 1)
createRowLayout(totalCols, leftCount, rightCount) ==
    LET left == Min(leftCount, totalCols)
        right == Min(rightCount, totalCols - left)
    IN  [c0 \in 1..totalCols |->
            (c0 - 1 < left) \/ (c0 - 1 >= totalCols - right)]

\* a mask whose second row has the wings of the first
buildLayoutWrongWing(numRows, totalCols) ==
    IF numRows < 3
    THEN [r \in 1..numRows |-> FullRow(totalCols)]
    ELSE <<createRowLayout(totalCols, 2, 2),
           createRowLayout(totalCols, 2, 2),
           createRowLayout(totalCols, 5, 5)>>
         \o [r \in 1..(numRows - 3) |-> FullRow(totalCols)]

\* part_002
buildLayout(numRows, totalCols) ==
    IF numRows < 3
    THEN [r \in 1..numRows |-> FullRow(totalCols)]
    ELSE <<createRowLayout(totalCols, 2, 2),
           createRowLayout(totalCols, 2, 4),
           createRowLayout(totalCols, 5, 5)>>
         \o [r \in 1..(numRows - 3) |-> FullRow(totalCols)]

\* mod.ts: the three top rows are written out one by one
getLayout(numRows, totalCols) ==
    IF numRows < 3
    THEN [r \in 1..numRows |-> FullRow(totalCols)]
    ELSE LET left0 == Min(2, totalCols)
             right0 == Min(2, totalCols - left0)
             row0 == [c0 \in 1..totalCols |->
                         (c0 - 1 < left0) \/ (c0 - 1 >= totalCols - right0)]
             left1 == Min(2, totalCols)
             right1 == Min(4, totalCols - left1)
             row1 == [c0 \in 1..totalCols |->
                         (c0 - 1 < left1) \/ (c0 - 1 >= totalCols - right1)]
             left2 == Min(5, totalCols)
             right2 == Min(5, totalCols - left2)
             row2 == [c0 \in 1..totalCols |->
                         (c0 - 1 < left2) \/ (c0 - 1 >= totalCols - right2)]
         IN  <<row0, row1, row2>>
             \o [r \in 1..(numRows - 3) |-> FullRow(totalCols)]

-----------------------------------------------------------------------------
(* Placer *)

\* new Grid<T>(totalCols, numRows, getDefault): every cell the default
NewGrid(totalCols, numRows, d) ==
    [r \in 1..numRows |-> [c \in 1..totalCols |-> d]]

\* grid.set(new Position(c, r), value), c and r 0-based
GridSet(g, c, r, value) == [g EXCEPT ![r + 1][c + 1] = value]

\* grid.get(new Position(c, r))
GridGet(g, c, r) == g[r + 1][c + 1]

\* the inner loop for (let r = 0; r < numRows; r++) of column c, from row r
\* on; st holds the grid and the pointer
RECURSIVE FillRows(_, _, _, _, _, _, _)
FillRows(its, lay, numRows, d, st, c, r) ==
    IF r >= numRows THEN st
    ELSE IF lay[r + 1][c + 1]
    THEN IF st.pointer < Len(its)
         THEN FillRows(its, lay, numRows, d,
                       [g |-> GridSet(st.g, c, r, its[st.pointer + 1]),
                        pointer |-> st.pointer + 1], c, r + 1)
         ELSE FillRows(its, lay, numRows, d,
                       [g |-> GridSet(st.g, c, r, d), pointer |-> st.pointer],
                       c, r + 1)
    ELSE FillRows(its, lay, numRows, d, st, c, r + 1)

\* the outer loop for (let c = 0; c < totalCols; c++), from column c on (a
\* grid of no rows has no cell to visit)
RECURSIVE FillCols(_, _, _, _, _, _, _)
FillCols(its, lay, totalCols, numRows, d, st, c) ==
    IF c >= totalCols \/ st.g = <<>> THEN st
    ELSE FillCols(its, lay, totalCols, numRows, d,
                  FillRows(its, lay, numRows, d, st, c, 0), c + 1)

\* the inner loop of a scan with the loops exchanged: row r, from column c on
RECURSIVE FillColsOfRow(_, _, _, _, _, _, _)
FillColsOfRow(its, lay, totalCols, d, st, r, c) ==
    IF c >= totalCols THEN st
    ELSE IF lay[r + 1][c + 1]
    THEN IF st.pointer < Len(its)
         THEN FillColsOfRow(its, lay, totalCols, d,
                       [g |-> GridSet(st.g, c, r, its[st.pointer + 1]),
                        pointer |-> st.pointer + 1], r, c + 1)
         ELSE FillColsOfRow(its, lay, totalCols, d,
                       [g |-> GridSet(st.g, c, r, d), pointer |-> st.pointer],
                       r, c + 1)
    ELSE FillColsOfRow(its, lay, totalCols, d, st, r, c + 1)

RECURSIVE FillRowsOuter(_, _, _, _, _, _, _)
FillRowsOuter(its, lay, totalCols, numRows, d, st, r) ==
    IF r >= numRows \/ st.g = <<>> THEN st
    ELSE FillRowsOuter(its, lay, totalCols, numRows, d,
                       FillColsOfRow(its, lay, totalCols, d, st, r, 0), r + 1)

\* fillGrid scanning rows outer, columns inner
fillGridRowMajor(its, lay, totalCols, numRows, d) ==
    FillRowsOuter(its, lay, totalCols, numRows, d,
                  [g |-> NewGrid(totalCols, numRows, d), pointer |-> 0], 0).g

\* part_002 fillGrid; mod.ts step 4 is the same code with " " for getDefault()
fillGrid(its, lay, totalCols, numRows, d) ==
    FillCols(its, lay, totalCols, numRows, d,
             [g |-> NewGrid(totalCols, numRows, d), pointer |-> 0], 0).g

-----------------------------------------------------------------------------
(* Compactor *)

\* x || " ": the empty string is the one falsy string
OrBlank(x) == IF x.val = EmptyStr THEN Item(Blank, 0) ELSE x

\* for (let i = 0; i < segLetters.length; i++)
\*   grid.set(new Position(c, segStart + i), segLetters[i]), from i = k on
RECURSIVE WriteSegment(_, _, _, _, _)
WriteSegment(g, c, segStart, segLetters, k) ==
    IF k >= Len(segLetters) THEN g
    ELSE WriteSegment(GridSet(g, c, segStart + k, segLetters[k + 1]),
                      c, segStart, segLetters, k + 1)

\* for (let i = segLetters.length; i < r - segStart; i++)
\*   grid.set(new Position(c, segStart + i), " "), from i = k on
RECURSIVE BlankSegment(_, _, _, _, _)
BlankSegment(g, c, segStart, segLen, k) ==
    IF k >= segLen THEN g
    ELSE BlankSegment(GridSet(g, c, segStart + k, Item(Blank, 0)),
                      c, segStart, segLen, k + 1)

\* the inner while loop: the letters of the rows from r on, to the end of the
\* active segment
RECURSIVE SegmentLetters(_, _, _, _, _)
SegmentLetters(g, lay, numRows, c, r) ==
    IF r < numRows /\ lay[r + 1][c + 1]
    THEN <<OrBlank(GridGet(g, c, r))>> \o SegmentLetters(g, lay, numRows, c, r + 1)
    ELSE <<>>

\* mod.ts step 5, one column c from row r on (both 0-based): an active
\* segment is read into segLetters and written back from segStart on
RECURSIVE CompressColumn(_, _, _, _, _)
CompressColumn(g, lay, numRows, c, r) ==
    IF r >= numRows THEN g
    ELSE IF lay[r + 1][c + 1]
    THEN LET segStart == r
             segLetters == SegmentLetters(g, lay, numRows, c, r)
             segEnd == r + Len(segLetters)
             written == WriteSegment(g, c, segStart, segLetters, 0)
             blanked == BlankSegment(written, c, segStart, segEnd - segStart,
                                     Len(segLetters))
         IN  CompressColumn(blanked, lay, numRows, c, segEnd)
    ELSE CompressColumn(g, lay, numRows, c, r + 1)

\* for (let c = 0; c < totalCols; c++), from column c on (a grid of no rows
\* has no segment)
RECURSIVE CompressFrom(_, _, _, _, _)
CompressFrom(g, lay, totalCols, numRows, c) ==
    IF c >= totalCols \/ g = <<>> THEN g
    ELSE CompressFrom(CompressColumn(g, lay, numRows, c, 0),
                      lay, totalCols, numRows, c + 1)

compressColumns(g, lay, totalCols, numRows) ==
    CompressFrom(g, lay, totalCols, numRows, 0)

\* JSON.stringify(row[i]) === JSON.stringify(getDefault())
IsFiller(cell) == Stringify(cell) = Stringify(getDefault)

\* the count loop of one row, from index k (1-based) downwards
RECURSIVE TrailingFrom(_, _)
TrailingFrom(row, k) ==
    IF k < 1 THEN 0
    ELSE IF IsFiller(row[k]) THEN 1 + TrailingFrom(row, k - 1)
    ELSE 0

TrailingCount(row) == TrailingFrom(row, Len(row))

\* the same loop without its break: every filler cell of the row counts
RECURSIVE FillerFrom(_, _)
FillerFrom(row, k) ==
    IF k < 1 THEN 0
    ELSE (IF IsFiller(row[k]) THEN 1 ELSE 0) + FillerFrom(row, k - 1)

\* lowestCount over the rows from the k-th on; <<>> stands for Infinity
RECURSIVE LowestFrom(_, _, _)
LowestFrom(g, k, lowest) ==
    IF k > Len(g) THEN lowest
    ELSE LET count == TrailingCount(g[k])
         IN  LowestFrom(g, k + 1,
                        IF lowest = <<>> THEN <<count>>
                        ELSE <<Min(lowest[1], count)>>)

RECURSIVE LowestFromNoBreak(_, _, _)
LowestFromNoBreak(g, k, lowest) ==
    IF k > Len(g) THEN lowest
    ELSE LET count == FillerFrom(g[k], Len(g[k]))
         IN  LowestFromNoBreak(g, k + 1,
                        IF lowest = <<>> THEN <<count>>
                        ELSE <<Min(lowest[1], count)>>)

RECURSIVE HighestFrom(_, _, _)
HighestFrom(g, k, highest) ==
    IF k > Len(g) THEN highest
    ELSE LET count == TrailingCount(g[k])
         IN  HighestFrom(g, k + 1,
                        IF highest = <<>> THEN <<count>>
                        ELSE <<IF highest[1] > count THEN highest[1] ELSE count>>)

\* compressGrid with the counting loop's break left out
compressGridNoBreak(g) ==
    LET lowestCount == LowestFromNoBreak(g, 1, <<>>)
    IN  [r \in 1..Len(g) |-> SubSeq(g[r], 1, Len(g[r]) - lowestCount[1])]

\* compressGrid with Math.max for Math.min
compressGridMax(g) ==
    LET lowestCount == HighestFrom(g, 1, <<>>)
    IN  [r \in 1..Len(g) |-> SubSeq(g[r], 1, Len(g[r]) - lowestCount[1])]

\* part_002: grid.map((row) => row.slice(0, row.length - lowestCount))
compressGrid(g) ==
    LET lowestCount == LowestFrom(g, 1, <<>>)
    IN  [r \in 1..Len(g) |-> SubSeq(g[r], 1, Len(g[r]) - lowestCount[1])]

-----------------------------------------------------------------------------
(* The callers' inputs *)

Range(f) == {f[x] : x \in DOMAIN f}

ShortInputs(vals) ==
    UNION {{[k \in 1..n |-> Item(f[k], k)] : f \in [1..n -> vals]} : n \in 0..MaxLen}

LongInputs(cycle, most) ==
    {[k \in 1..n |-> Item(cycle[((k * a) % 3) + 1], k)] :
        n \in (MaxLen + 1)..most, a \in 0..MaxStride}

Inputs(v) ==
    IF v = "lib" THEN ShortInputs(LibVals) \cup LongInputs(LibCycle, MaxN)
    ELSE ShortInputs(ModVals) \cup LongInputs(ModCycle, MaxChars)

-----------------------------------------------------------------------------
(* periodt, step by step *)

Init ==
    /\ variant \in {"lib", "mod"}
    /\ items \in Inputs(variant)
    /\ random \in (IF variant = "mod" THEN {TRUE} ELSE BOOLEAN)
    /\ pc = "group"
    /\ groups = <<>>
    /\ i = 0
    /\ orderedItems = <<>>
    /\ cols = 0
    /\ rows = 0
    /\ layout = <<>>
    /\ grid = <<>>
    /\ arrayGrid = <<>>

\* sortAndGroupItems(items, getGroupingId); mod.ts step 1
SortAndGroup ==
    /\ pc = "group"
    /\ groups' = sortAndGroupItems(variant, items)
    /\ i' = Len(groups') - 1
    /\ pc' = IF random THEN "shuffle" ELSE "flat"
    /\ UNCHANGED <<variant, items, random, orderedItems, cols, rows, layout,
                   grid, arrayGrid>>

\* one round of the Fisher-Yates loop: j = Math.floor(Math.random() * (i + 1))
ShuffleStep ==
    /\ pc = "shuffle"
    /\ i > 0
    /\ \E j \in 0..i : groups' = SwapGroups(groups, i, j)
    /\ i' = i - 1
    /\ UNCHANGED <<variant, items, random, pc, orderedItems, cols, rows, layout,
                   grid, arrayGrid>>

\* the loop is over: groups.flat()
ShuffleReturn ==
    /\ pc = "shuffle"
    /\ i <= 0
    /\ orderedItems' = Flat(groups)
    /\ pc' = "size"
    /\ UNCHANGED <<variant, items, random, groups, i, cols, rows, layout, grid,
                   arrayGrid>>

\* random is false: sortedGroups.flat()
FlatSorted ==
    /\ pc = "flat"
    /\ orderedItems' = Flat(groups)
    /\ pc' = "size"
    /\ UNCHANGED <<variant, items, random, groups, i, cols, rows, layout, grid,
                   arrayGrid>>

ComputeDimsSqrt ==
    /\ pc = "size"
    /\ variant = "lib"
    /\ cols' = sqrtCols(Len(orderedItems))
    /\ rows' = sqrtRows(cols')
    /\ pc' = "layout"
    /\ UNCHANGED <<variant, items, random, groups, i, orderedItems, layout, grid,
                   arrayGrid>>

ComputeDimsFloor ==
    /\ pc = "size"
    /\ variant = "mod"
    /\ cols' = floorCols(Len(orderedItems))
    /\ rows' = floorRows(Len(orderedItems))
    /\ pc' = "layout"
    /\ UNCHANGED <<variant, items, random, groups, i, orderedItems, layout, grid,
                   arrayGrid>>

BuildLayout ==
    /\ pc = "layout"
    /\ variant = "lib"
    /\ layout' = buildLayout(rows, cols)
    /\ pc' = "fill"
    /\ UNCHANGED <<variant, items, random, groups, i, orderedItems, cols, rows,
                   grid, arrayGrid>>

GetLayout ==
    /\ pc = "layout"
    /\ variant = "mod"
    /\ layout' = getLayout(rows, cols)
    /\ pc' = "fill"
    /\ UNCHANGED <<variant, items, random, groups, i, orderedItems, cols, rows,
                   grid, arrayGrid>>

\* fillGrid(orderedItems, layout, cols, rows, getDefault); mod.ts step 4
FillGrid ==
    /\ pc = "fill"
    /\ grid' = fillGrid(orderedItems, layout, cols, rows,
                        IF variant = "lib" THEN getDefault ELSE Item(Blank, 0))
    /\ pc' = "compress"
    /\ UNCHANGED <<variant, items, random, groups, i, orderedItems, cols, rows,
                   layout, arrayGrid>>

\* compressGrid(grid.grid(), getDefault)
CompressGrid ==
    /\ pc = "compress"
    /\ variant = "lib"
    /\ arrayGrid' = compressGrid(grid)
    /\ pc' = "done"
    /\ UNCHANGED <<variant, items, random, groups, i, orderedItems, cols, rows,
                   layout, grid>>

\* mod.ts step 5, in place
CompressColumns ==
    /\ pc = "compress"
    /\ variant = "mod"
    /\ grid' = compressColumns(grid, layout, cols, rows)
    /\ pc' = "done"
    /\ UNCHANGED <<variant, items, random, groups, i, orderedItems, cols, rows,
                   layout, arrayGrid>>

Next ==
    \/ SortAndGroup
    \/ ShuffleStep
    \/ ShuffleReturn
    \/ FlatSorted
    \/ ComputeDimsSqrt
    \/ ComputeDimsFloor
    \/ BuildLayout
    \/ GetLayout
    \/ FillGrid
    \/ CompressGrid
    \/ CompressColumns

Spec == Init /\ [][Next]_vars

(* buildLayout and getLayout on their own, for every (numRows, totalCols) *)

InitLayout ==
    /\ variant \in {"lib", "mod"}
    /\ rows \in 0..MaxRows
    /\ cols \in 0..MaxCols
    /\ pc = "layout"
    /\ items = <<>>
    /\ random = FALSE
    /\ groups = <<>>
    /\ i = 0
    /\ orderedItems = <<>>
    /\ layout = <<>>
    /\ grid = <<>>
    /\ arrayGrid = <<>>

NextLayout ==
    \/ BuildLayout
    \/ GetLayout

SpecLayout == InitLayout /\ [][NextLayout]_vars

-----------------------------------------------------------------------------
(* Vocabulary of the properties *)

Cells(g) == {<<r, c>> \in (1..Len(g)) \X (1..(IF g = <<>> THEN 0 ELSE Len(g[1]))) : TRUE}

\* place of cell (r, c), 1-based, in the column-major scan of a grid of
\* numRows rows
ScanIndex(r, c, numRows) == (c - 1) * numRows + (r - 1)

NonFillerCount(g) == Cardinality({p \in Cells(g) : ~IsFiller(g[p[1]][p[2]])})

\* the grouper has run and the shuffle has not yet touched its groups
Grouped == pc \in {"shuffle", "flat"} /\ i = Len(groups) - 1

Sized == pc \in {"layout", "fill", "compress", "done"}

FinalGrid == IF variant = "lib" THEN arrayGrid ELSE grid

Perms(n) == {f \in [1..n -> 1..n] : \A a, b \in 1..n : a # b => f[a] # f[b]}

\* the number of filler cells at the end of a row
Trail(row) ==
    CHOOSE t \in 0..Len(row) :
        /\ \A k \in (Len(row) - t + 1)..Len(row) : IsFiller(row[k])
        /\ (t < Len(row) => ~IsFiller(row[Len(row) - t]))

SetMin(S) == CHOOSE x \in S : \A y \in S : x <= y

\* the number of active cells before (r, c) in the column-major scan
ActiveBefore(lay, r, c) ==
    Cardinality({p \in Cells(lay) :
                    /\ lay[p[1]][p[2]]
                    /\ (p[2] < c \/ (p[2] = c /\ p[1] < r))})

-----------------------------------------------------------------------------
(* C1 Conservation: whenever no input item equals the filler, the grid that
   part_002's periodt returns holds exactly as many non-filler cells as there
   are input items. *)
Conservation ==
    (pc = "done" /\ variant = "lib" /\ \A k \in 1..Len(items) : ~IsFiller(items[k]))
        => NonFillerCount(arrayGrid) = Len(items)

(* C2 Grouper: the groups are non-empty, two items are in the same group
   exactly when their keys are equal, the groups together hold the input's
   items, each once, and the groups are in ascending key order; no items, no
   groups. *)
GrouperContract ==
    Grouped =>
        LET where == {<<g, k>> \in (1..Len(groups)) \X (1..Len(items)) :
                          k <= Len(groups[g])}
        IN  /\ \A g \in 1..Len(groups) : Len(groups[g]) > 0
            /\ \A p, q \in where :
                   (p[1] = q[1]) <=>
                       (getGroupingId(groups[p[1]][p[2]])
                            = getGroupingId(groups[q[1]][q[2]]))
            /\ Cardinality(where) = Len(items)
            /\ {groups[p[1]][p[2]] : p \in where} = Range(items)
            /\ \A g \in 1..(Len(groups) - 1) :
                   Compare(variant, groups[g][1], groups[g + 1][1]) <= 0
            /\ (items = <<>> => groups = <<>>)

(* C3 as stated: for every item count, 0 included, the planned grid has at
   least one column and one row, and at least 10 columns and 3 rows under the
   fraction-with-floor strategy. *)
DimsAtLeastOne ==
    Sized => /\ cols >= 1
             /\ rows >= 1
             /\ (variant = "mod" => cols >= 10 /\ rows >= 3)

(* C3 amended: under fraction-with-floor the grid has at least 10 columns
   and 3 rows for every item count; under the sqrt strategy it has at least
   one column and one row when there is at least one item, and no column and
   no row, so an empty result, when there is none. *)
DimsAmended ==
    Sized => /\ (variant = "mod" => cols >= 10 /\ rows >= 3)
             /\ (variant = "lib" /\ Len(items) >= 1 => cols >= 1 /\ rows >= 1)
             /\ (variant = "lib" /\ Len(items) = 0 => cols = 0 /\ rows = 0)
             /\ (variant = "lib" /\ Len(items) = 0 /\ pc = "done"
                    => arrayGrid = <<>>)

DimsWitness ==
    /\ pc = "done"
    /\ variant = "lib"
    /\ Len(items) = 0
    /\ cols = 0
    /\ rows = 0
    /\ arrayGrid = <<>>

\* the cells of a stepped row: leftmost left and rightmost right, clamped
WingRow(row, totalCols, leftCount, rightCount) ==
    LET left == IF leftCount < totalCols THEN leftCount ELSE totalCols
        rest == totalCols - left
        right == IF rightCount < rest THEN rightCount ELSE rest
    IN  /\ left + right <= totalCols
        /\ \A c \in 1..totalCols : row[c] <=> (c <= left \/ c > totalCols - right)
        /\ Cardinality({c \in 1..totalCols : row[c]}) = left + right

(* C4 Shape mask: the mask has rows rows of columns cells; with fewer than 3
   rows every cell is active; otherwise rows 0, 1, 2 have their leftmost 2, 2,
   5 and rightmost 2, 4, 5 cells active, the right count clamped to what the
   left leaves, the two spans never overlapping nor exceeding the row, and
   every later row is fully active. *)
LayoutShape ==
    pc = "fill" =>
        /\ Len(layout) = rows
        /\ \A r \in 1..rows : Len(layout[r]) = cols
        /\ (rows < 3 => \A r \in 1..rows : \A c \in 1..cols : layout[r][c])
        /\ (rows >= 3 =>
               /\ WingRow(layout[1], cols, 2, 2)
               /\ WingRow(layout[2], cols, 2, 4)
               /\ WingRow(layout[3], cols, 5, 5)
               /\ \A r \in 4..rows : \A c \in 1..cols : layout[r][c])

LayoutWitness ==
    /\ pc = "fill"
    /\ variant = "lib"
    /\ rows = 4
    /\ cols = 8
    /\ layout[3] = [c \in 1..8 |-> TRUE]
    /\ ~layout[2][3]

(* C5 Placer: after the fill, the k-th active cell of the column-major scan
   holds the k-th ordered item while items remain, every later active cell
   holds the filler, and every inactive cell holds the filler. *)
PlacerContract ==
    pc = "compress" =>
        \A p \in Cells(layout) :
            LET before == ActiveBefore(layout, p[1], p[2])
            IN  grid[p[1]][p[2]] =
                    IF layout[p[1]][p[2]] /\ before < Len(orderedItems)
                    THEN orderedItems[before + 1]
                    ELSE Item(Blank, 0)

PlacerWitness ==
    /\ pc = "compress"
    /\ variant = "lib"
    /\ Len(orderedItems) = 12
    /\ rows = 3
    /\ ~layout[1][3]
    /\ grid[3][3] = orderedItems[7]
    /\ grid[3][7] = Item(Blank, 0)

(* C6 Orderer: the flat sequence is the grouper's groups, each whole and in
   its own order, concatenated in some permutation of the groups, and in the
   grouper's order when random is false. *)
OrdererContract ==
    pc = "size" =>
        LET G == sortAndGroupItems(variant, items)
        IN  /\ \E f \in Perms(Len(G)) :
                   orderedItems = Flat([k \in 1..Len(G) |-> G[f[k]]])
            /\ (~random => orderedItems = Flat(G))

OrdererWitness ==
    /\ pc = "size"
    /\ variant = "lib"
    /\ random
    /\ Len(sortAndGroupItems(variant, items)) >= 3
    /\ orderedItems # Flat(sortAndGroupItems(variant, items))

(* C7 Order preservation: of two input items with the same key, the earlier
   one of the input is the earlier one of its group, and the earlier one in
   the column-major scan of the final grid. *)
OrderPreserved ==
    LET same == {ab \in (1..Len(items)) \X (1..Len(items)) :
                    /\ ab[1] < ab[2]
                    /\ getGroupingId(items[ab[1]]) = getGroupingId(items[ab[2]])}
    IN  /\ Grouped =>
               \A ab \in same : \A g \in 1..Len(groups) :
                   \A p, q \in 1..Len(groups[g]) :
                       (groups[g][p].id = ab[1] /\ groups[g][q].id = ab[2]) => p < q
        /\ pc = "done" =>
               LET at == [k \in 1..Len(items) |->
                             {ScanIndex(p[1], p[2], Len(FinalGrid)) :
                                 p \in {x \in Cells(FinalGrid) :
                                           FinalGrid[x[1]][x[2]].id = k}}]
               IN  \A ab \in same :
                       \A x \in at[ab[1]] : \A y \in at[ab[2]] : x < y

(* C8 Trim: compressGrid drops the same number of cells from the end of
   every row, the least count of trailing filler cells over the rows; every
   cell it drops is filler and the rows of the result have one length. *)
TrimContract ==
    (pc = "done" /\ variant = "lib") =>
        IF grid = <<>> THEN arrayGrid = <<>>
        ELSE LET n == SetMin({Trail(grid[r]) : r \in 1..Len(grid)})
             IN  /\ Len(arrayGrid) = Len(grid)
                 /\ \A r \in 1..Len(grid) :
                        /\ Len(arrayGrid[r]) = cols - n
                        /\ arrayGrid[r] = SubSeq(grid[r], 1, cols - n)
                        /\ \A c \in (Len(arrayGrid[r]) + 1)..cols : IsFiller(grid[r][c])
                 /\ NonFillerCount(arrayGrid) = NonFillerCount(grid)

TrimWitness ==
    /\ pc = "done"
    /\ variant = "lib"
    /\ rows = 3
    /\ Len(arrayGrid) = 3
    /\ Len(arrayGrid[1]) < cols
    /\ Len(arrayGrid[1]) > 2
    /\ IsFiller(arrayGrid[1][Len(arrayGrid[1])])
    /\ ~IsFiller(arrayGrid[3][Len(arrayGrid[3])])

(* C9 Idempotent compaction: compacting the compacted grid once more changes
   nothing, for the trailing-filler trim and for the per-column rewrite. *)
CompactIdempotent ==
    pc = "done" =>
        /\ (variant = "lib" => compressGrid(arrayGrid) = arrayGrid)
        /\ (variant = "mod" => compressColumns(grid, layout, cols, rows) = grid)

CompactWitness ==
    /\ pc = "done"
    /\ variant = "lib"
    /\ rows >= 3
    /\ arrayGrid # grid
    /\ \E r \in 1..Len(arrayGrid) : Trail(arrayGrid[r]) > 0

\* the maximal runs of active rows of column c: <<first, last>>, 1-based
Runs(lay, c) ==
    {se \in (1..Len(lay)) \X (1..Len(lay)) :
        /\ se[1] <= se[2]
        /\ \A r \in se[1]..se[2] : lay[r][c]
        /\ (se[1] = 1 \/ ~lay[se[1] - 1][c])
        /\ (se[2] = Len(lay) \/ ~lay[se[2] + 1][c])}

RunCells(g, c, se) == [k \in 1..(se[2] - se[1] + 1) |-> g[se[1] + k - 1][c]]

IsReal(cell) == cell.val # Blank

Compacted(before, after, lay) ==
    \A c \in 1..(IF lay = <<>> THEN 0 ELSE Len(lay[1])) :
        /\ \A se \in Runs(lay, c) :
               LET reals == SelectSeq(RunCells(before, c, se), IsReal)
               IN  \A k \in 1..(se[2] - se[1] + 1) :
                       after[se[1] + k - 1][c].val =
                           IF k <= Len(reals) THEN reals[k].val ELSE Blank
        /\ \A r \in 1..Len(lay) : ~lay[r][c] => after[r][c].val = before[r][c].val

(* C10 Compactor run rewrite: in every column and every maximal run of
   active rows, after the compaction the run's non-filler values are at the
   top of the run in their order and the rest of the run is filler; cells
   outside the runs are unchanged. *)
RunsCompacted ==
    [][(pc = "compress" /\ variant = "mod" /\ pc' = "done")
           => Compacted(grid, grid', layout)]_vars

====
